---------------------------- MODULE Spec2Model ----------------------------
(***************************************************************************)
(* Text normalization for ASR dataset preparation: the generic normalizer  *)
(* (text_tools.py) and the Vaani annotation stripper                       *)
(* (vaani_text_cleaner.py), with their batch adapters.                     *)
(*                                                                         *)
(* A text is a sequence of characters.  An ASCII character is the          *)
(* one-character string itself; any other code point, and the grave        *)
(* accent U+0060, is written "U+XXXX".                                     *)
(* A Python value is a record [kind, chars, n]: kind "str" carries chars,  *)
(* kind "int" carries n, kind "raise" (the call raised) carries the        *)
(* exception's name in chars; a batch is a record [kind, cols].            *)
(***************************************************************************)
EXTENDS Integers, Sequences, FiniteSets, TLC

VARIABLES pc, fn, text, language_code, cfg, batch, ret

vars == <<pc, fn, text, language_code, cfg, batch, ret>>

---------------------------------------------------------------------------
(* Python values *)

None == [kind |-> "none", chars |-> <<>>, n |-> 0]

Str(s) == [kind |-> "str", chars |-> s, n |-> 0]

PyInt(i) == [kind |-> "int", chars |-> <<>>, n |-> i]

PyBool(b) == [kind |-> "bool", chars |-> <<>>, n |-> IF b THEN 1 ELSE 0]

PyList(k) == [kind |-> "list", chars |-> <<>>, n |-> k]

Raise(e) == [kind |-> "raise", chars |-> <<e>>, n |-> 0]

\* a batch: a dict from column names to lists
Dict(columns) == [kind |-> "dict", cols |-> columns]

\* bool(v): None, "", 0, False and [] are falsy, everything else is truthy
Truthy(v) ==
  CASE v.kind = "none" -> FALSE
    [] v.kind = "str" -> Len(v.chars) > 0
    [] v.kind = "int" -> v.n # 0
    [] v.kind = "bool" -> v.n # 0
    [] v.kind = "list" -> v.n # 0
    [] OTHER -> TRUE

\* isinstance(v, str)
IsStr(v) == v.kind = "str"

---------------------------------------------------------------------------
(* Character classes *)

\* str.isspace(), which is also the regex class \s: the ASCII whitespace
\* and the other Unicode whitespace, such as NO-BREAK SPACE
Whitespace == {" ", "\t", "\n", "\r", "U+00A0", "U+3000"}

IsSpace(c) == c \in Whitespace

DecimalDigits == {"0", "1", "2", "3", "4", "5", "6", "7", "8", "9"}

\* characters for which str.isdigit() holds: the decimal digits and the
\* other Unicode digits, such as SUPERSCRIPT TWO
IsDigitChar(c) == c \in DecimalDigits \cup {"U+00B2", "U+00B3", "U+00B9"}

UpperCase ==
  << "A", "B", "C", "D", "E", "F", "G", "H", "I", "J", "K", "L", "M", "N",
     "O", "P", "Q", "R", "S", "T", "U", "V", "W", "X", "Y", "Z",
     "U+00C1", "U+00C9" >>

LowerCase ==
  << "a", "b", "c", "d", "e", "f", "g", "h", "i", "j", "k", "l", "m", "n",
     "o", "p", "q", "r", "s", "t", "u", "v", "w", "x", "y", "z",
     "U+00E1", "U+00E9" >>

LowerChar(c) ==
  IF \E i \in 1..Len(UpperCase) : UpperCase[i] = c
  THEN LowerCase[CHOOSE i \in 1..Len(UpperCase) : UpperCase[i] = c]
  ELSE c

RECURSIVE Lower(_)
\* str.lower()
Lower(s) == IF s = <<>> THEN <<>> ELSE <<LowerChar(Head(s))>> \o Lower(Tail(s))

IsChar(c, s) == \E i \in 1..Len(s) : s[i] = c

---------------------------------------------------------------------------
(* text_tools.py *)

AsciiPunctuation ==
  { "!", "\"", "#", "$", "%", "&", "'", "(", ")", "*", "+", ",", "-", ".",
    "/", ":", ";", "<", "=", ">", "?", "@", "[", "\\", "]", "^", "_",
    "U+0060",
    "{", "|", "}", "~" }

ZhPunctuation ==
  { "U+00A8", "U+00B7", "U+02C9", "U+2014", "U+2016", "U+2026", "U+2236",
    "U+3001", "U+3002", "U+3003", "U+3005", "U+3008", "U+3009", "U+300A",
    "U+300B", "U+300C", "U+300D", "U+300E", "U+300F", "U+3010", "U+3011",
    "U+3014", "U+3015", "U+3016", "U+3017", "U+FF01", "U+FF02", "U+FF07",
    "U+FF08", "U+FF09", "U+FF0C", "U+FF0E", "U+FF1A", "U+FF1B", "U+FF1F",
    "U+FF3B", "U+FF3D", "U+FF40", "U+FF5B", "U+FF5C", "U+FF5D", "U+FF5E" }

JaPunctuation ==
  { "U+2026", "U+3001", "U+3002", "U+3008", "U+3009", "U+300A", "U+300B",
    "U+300C", "U+300D", "U+300E", "U+300F", "U+3010", "U+3011", "U+3014",
    "U+3015", "U+301C", "U+30FB", "U+30FC", "U+FF01", "U+FF08", "U+FF09",
    "U+FF1A", "U+FF1B", "U+FF1F", "U+FF3B", "U+FF3D", "U+FF5B", "U+FF5D",
    "U+FF5E" }

KoPunctuation ==
  { "U+00B7", "U+2014", "U+2026", "U+3001", "U+3002", "U+3008", "U+3009",
    "U+300A", "U+300B", "U+300C", "U+300D", "U+300E", "U+300F", "U+3010",
    "U+3011", "U+3014", "U+3015", "U+318D", "U+FF01", "U+FF08", "U+FF09",
    "U+FF1A", "U+FF1B", "U+FF1F", "U+FF3B", "U+FF3D", "U+FF5B", "U+FF5D",
    "U+FF5E" }

\* the character class of PUNCTUATION_PATTERNS.get(key, ...['default'])
PUNCTUATION_PATTERNS(key) ==
  CASE key = <<"z", "h">> -> AsciiPunctuation \cup ZhPunctuation
    [] key = <<"j", "a">> -> AsciiPunctuation \cup JaPunctuation
    [] key = <<"k", "o">> -> AsciiPunctuation \cup KoPunctuation
    [] OTHER -> AsciiPunctuation

\* NFC on the characters the model's texts are drawn from: COMBINING ACUTE
\* ACCENT (U+0301) composes with a preceding a, e, A or E, and GREEK
\* QUESTION MARK (U+037E) is canonically equivalent to the semicolon
ComposeAcute(c) ==
  CASE c = "a" -> "U+00E1"
    [] c = "e" -> "U+00E9"
    [] c = "A" -> "U+00C1"
    [] c = "E" -> "U+00C9"
    [] OTHER -> c

Singleton(c) == IF c = "U+037E" THEN ";" ELSE c

RECURSIVE Compose(_, _)
Compose(out, rest) ==
  IF rest = <<>> THEN out
  ELSE LET c == Singleton(Head(rest)) IN
       IF /\ c = "U+0301"
          /\ out # <<>>
          /\ ComposeAcute(out[Len(out)]) # out[Len(out)]
       THEN Compose(SubSeq(out, 1, Len(out) - 1)
                      \o <<ComposeAcute(out[Len(out)])>>, Tail(rest))
       ELSE Compose(Append(out, c), Tail(rest))

\* unicodedata.normalize('NFC', text)
normalize_unicode(s) == Compose(<<>>, s)

RECURSIVE SplitHead(_, _)
\* s.split(sep)[0]: the part of s before the first sep
SplitHead(s, sep) ==
  IF s = <<>> \/ Head(s) = sep THEN <<>>
  ELSE <<Head(s)>> \o SplitHead(Tail(s), sep)

\* language_code.split('_')[0].lower()
lang_key(tag) == Lower(SplitHead(tag, "_"))

RECURSIVE DeleteChars(_, _)
\* re.sub('[...]', '', s): every character of the class is deleted
DeleteChars(s, class) ==
  IF s = <<>> THEN <<>>
  ELSE (IF Head(s) \in class THEN <<>> ELSE <<Head(s)>>)
         \o DeleteChars(Tail(s), class)

remove_punctuation(s, tag) == DeleteChars(s, PUNCTUATION_PATTERNS(lang_key(tag)))

RECURSIVE CollapseSpace(_, _)
\* re.sub(r'\s+', ' ', s), scanning from position i
CollapseSpace(s, i) ==
  IF i > Len(s) THEN <<>>
  ELSE IF IsSpace(s[i])
       THEN (IF i > 1 /\ IsSpace(s[i - 1]) THEN <<>> ELSE <<" ">>)
              \o CollapseSpace(s, i + 1)
       ELSE <<s[i]>> \o CollapseSpace(s, i + 1)

RECURSIVE LStrip(_)
LStrip(s) == IF s # <<>> /\ IsSpace(Head(s)) THEN LStrip(Tail(s)) ELSE s

RECURSIVE RStrip(_)
RStrip(s) ==
  IF s # <<>> /\ IsSpace(s[Len(s)]) THEN RStrip(SubSeq(s, 1, Len(s) - 1)) ELSE s

\* str.strip()
Strip(s) == RStrip(LStrip(s))

\* remove_extra_whitespace without the final strip
remove_extra_whitespace_no_strip(s) == CollapseSpace(s, 1)

remove_extra_whitespace(s) == Strip(CollapseSpace(s, 1))

\* str.isdigit(): non-empty and every character a digit
IsDigitStr(s) == s # <<>> /\ \A i \in 1..Len(s) : IsDigitChar(s[i])

\* str.isspace(): non-empty and every character whitespace
IsSpaceStr(s) == s # <<>> /\ \A i \in 1..Len(s) : IsSpace(s[i])

\* remove_digit_only_words testing the text with its spaces
remove_digit_only_words_spaces_kept(s) == ~(s # <<>> /\ IsDigitStr(s))

\* TRUE: keep, FALSE: filter
remove_digit_only_words(s) ==
  LET text_no_space == DeleteChars(s, {" "})
  IN  ~(text_no_space # <<>> /\ IsDigitStr(text_no_space))

RECURSIVE LazyEnd(_, _, _)
\* where '.*?' followed by close ends when the match starts before j:
\* the first close at or after j, reached without crossing a newline
\* (0: no match)
LazyEnd(s, close, j) ==
  IF j > Len(s) THEN 0
  ELSE IF s[j] = close THEN j
  ELSE IF s[j] = "\n" THEN 0
  ELSE LazyEnd(s, close, j + 1)

RECURSIVE SubLazy(_, _, _, _)
\* re.sub(open + '.*?' + close, '', s), scanning from position i
SubLazy(s, open, close, i) ==
  IF i > Len(s) THEN <<>>
  ELSE IF s[i] = open /\ LazyEnd(s, close, i + 1) # 0
       THEN SubLazy(s, open, close, LazyEnd(s, close, i + 1) + 1)
       ELSE <<s[i]>> \o SubLazy(s, open, close, i + 1)

remove_brackets_content(s) ==
  LET t1 == SubLazy(s, "[", "]", 1)
      t2 == SubLazy(t1, "<", ">", 1)
      t3 == SubLazy(t2, "{", "}", 1)
  IN  SubLazy(t3, "(", ")", 1)

\* text_normalize removing punctuation before bracket content
text_normalize_punctuation_first(t, lang, lower_case, remove_numbers, remove_brackets) ==
  IF ~Truthy(t) \/ ~IsStr(t) THEN None
  ELSE IF ~IsStr(lang) THEN Raise("AttributeError")
  ELSE
    LET t1 == normalize_unicode(t.chars)
        t2 == remove_punctuation(t1, lang.chars)
        t3 == IF remove_brackets THEN remove_brackets_content(t2) ELSE t2
        t4 == IF lower_case THEN Lower(t3) ELSE t3
        t5 == remove_extra_whitespace(t4)
    IN  IF remove_numbers /\ ~remove_digit_only_words(t5) THEN None
        ELSE IF t5 = <<>> \/ IsSpaceStr(t5) THEN None
        ELSE Str(t5)

\* text_normalize without its isinstance test
text_normalize_truthy_only(t, lang, lower_case, remove_numbers, remove_brackets) ==
  IF ~Truthy(t) THEN None
  ELSE IF ~IsStr(t) THEN Raise("TypeError")
  ELSE IF ~IsStr(lang) THEN Raise("AttributeError")
  ELSE
    LET t1 == normalize_unicode(t.chars)
        t2 == IF remove_brackets THEN remove_brackets_content(t1) ELSE t1
        t3 == remove_punctuation(t2, lang.chars)
        t4 == IF lower_case THEN Lower(t3) ELSE t3
        t5 == remove_extra_whitespace(t4)
    IN  IF remove_numbers /\ ~remove_digit_only_words(t5) THEN None
        ELSE IF t5 = <<>> \/ IsSpaceStr(t5) THEN None
        ELSE Str(t5)

text_normalize(t, lang, lower_case, remove_numbers, remove_brackets) ==
  IF ~Truthy(t) \/ ~IsStr(t) THEN None
  ELSE IF ~IsStr(lang) THEN Raise("AttributeError")
  ELSE
    LET t1 == normalize_unicode(t.chars)
        t2 == IF remove_brackets THEN remove_brackets_content(t1) ELSE t1
        t3 == remove_punctuation(t2, lang.chars)
        t4 == IF lower_case THEN Lower(t3) ELSE t3
        t5 == remove_extra_whitespace(t4)
    IN  IF remove_numbers /\ ~remove_digit_only_words(t5) THEN None
        ELSE IF t5 = <<>> \/ IsSpaceStr(t5) THEN None
        ELSE Str(t5)

---------------------------------------------------------------------------
(* vaani_text_cleaner.py *)

RECURSIVE NextChar(_, _, _)
\* the first position at or after j holding c (0: none)
NextChar(s, c, j) ==
  IF j > Len(s) THEN 0
  ELSE IF s[j] = c THEN j
  ELSE NextChar(s, c, j + 1)

RECURSIVE SubSpan(_, _, _, _)
\* re.sub(open + '[^' + close + ']*' + close, '', s), scanning from i
SubSpan(s, open, close, i) ==
  IF i > Len(s) THEN <<>>
  ELSE IF s[i] = open /\ NextChar(s, close, i + 1) # 0
       THEN SubSpan(s, open, close, NextChar(s, close, i + 1) + 1)
       ELSE <<s[i]>> \o SubSpan(s, open, close, i + 1)

RECURSIVE RunEnd(_, _, _)
\* the last position of the run of c that holds position j
RunEnd(s, c, j) ==
  IF j < Len(s) /\ s[j + 1] = c THEN RunEnd(s, c, j + 1) ELSE j

RECURSIVE SubDashRuns(_, _)
\* re.sub(r'--+', '', s), scanning from position i
SubDashRuns(s, i) ==
  IF i > Len(s) THEN <<>>
  ELSE IF s[i] = "-" /\ RunEnd(s, "-", i) > i
       THEN SubDashRuns(s, RunEnd(s, "-", i) + 1)
       ELSE <<s[i]>> \o SubDashRuns(s, i + 1)

\* clean_vaani_transcript deleting the dash runs before the spans
clean_vaani_dashes_first(t) ==
  IF ~Truthy(t) \/ ~IsStr(t) THEN Str(<<>>)
  ELSE
    LET t1 == SubDashRuns(t.chars, 1)
        t2 == SubSpan(t1, "{", "}", 1)
        t3 == SubSpan(t2, "<", ">", 1)
        t4 == CollapseSpace(t3, 1)
    IN  Str(Strip(t4))

\* clean_vaani_transcript collapsing whitespace before deleting dash runs
clean_vaani_whitespace_first(t) ==
  IF ~Truthy(t) \/ ~IsStr(t) THEN Str(<<>>)
  ELSE
    LET t1 == SubSpan(t.chars, "{", "}", 1)
        t2 == SubSpan(t1, "<", ">", 1)
        t3 == CollapseSpace(t2, 1)
        t4 == SubDashRuns(t3, 1)
    IN  Str(Strip(t4))

clean_vaani_transcript(t) ==
  IF ~Truthy(t) \/ ~IsStr(t) THEN Str(<<>>)
  ELSE
    LET t1 == SubSpan(t.chars, "{", "}", 1)
        t2 == SubSpan(t1, "<", ">", 1)
        t3 == SubDashRuns(t2, 1)
        t4 == CollapseSpace(t3, 1)
    IN  Str(Strip(t4))

devanagari_punct ==
  {"U+0964", "U+0965", "?", "!", ",", ";", ":", ".", "'", "\""}

normalize_vaani_transcript(t, remove_punct) ==
  LET cleaned == clean_vaani_transcript(t) IN
  IF ~Truthy(cleaned) THEN Str(<<>>)
  ELSE
    LET t1 == IF remove_punct
              THEN DeleteChars(cleaned.chars, devanagari_punct)
              ELSE cleaned.chars
    IN  Str(Strip(CollapseSpace(t1, 1)))

---------------------------------------------------------------------------
(* Batch adapters.  A batch maps column names to equally long sequences.  *)

RECURSIVE ZipNormalize(_, _, _, _)
\* the loop of batch_normalize_text over zip(texts, languages), from i
ZipNormalize(texts, languages, kw, i) ==
  IF i > Len(texts) \/ i > Len(languages) THEN <<>>
  ELSE LET normalized == text_normalize(texts[i], languages[i], kw.lower_case,
                                        kw.remove_numbers, kw.remove_brackets)
       IN  <<IF normalized.kind = "raise" THEN normalized
             ELSE IF Truthy(normalized) THEN normalized ELSE Str(<<>>)>>
             \o ZipNormalize(texts, languages, kw, i + 1)

RECURSIVE ZipKept(_, _, _, _)
ZipKept(texts, languages, kw, i) ==
  IF i > Len(texts) \/ i > Len(languages) THEN <<>>
  ELSE LET normalized == text_normalize(texts[i], languages[i], kw.lower_case,
                                        kw.remove_numbers, kw.remove_brackets)
       IN  (IF Truthy(normalized) THEN <<normalized>> ELSE <<>>)
             \o ZipKept(texts, languages, kw, i + 1)

\* batch_normalize_text appending only the records that are kept
batch_normalize_text_kept_only(b, text_column, language_column, kw) ==
  LET languages ==
        IF language_column \in DOMAIN b THEN b[language_column]
        ELSE [i \in 1..Len(b[text_column]) |-> Str(<<"e", "n">>)]
  IN  Dict([b EXCEPT ![text_column] = ZipKept(b[text_column], languages, kw, 1)])

\* the batch after the call; the dict is rewritten in place and returned
batch_normalize_text(b, text_column, language_column, kw) ==
  LET languages ==
        IF language_column \in DOMAIN b THEN b[language_column]
        ELSE [i \in 1..Len(b[text_column]) |-> Str(<<"e", "n">>)]
      normalized_texts == ZipNormalize(b[text_column], languages, kw, 1)
  IN  IF \E i \in 1..Len(normalized_texts) : normalized_texts[i].kind = "raise"
      THEN Raise("AttributeError")
      ELSE Dict([b EXCEPT ![text_column] = normalized_texts])

RECURSIVE MapClean(_, _)
\* the loop of batch_clean_vaani_transcripts, from i
MapClean(texts, i) ==
  IF i > Len(texts) THEN <<>>
  ELSE LET cleaned == normalize_vaani_transcript(texts[i], FALSE)
       IN  <<IF Truthy(cleaned) THEN cleaned ELSE Str(<<>>)>>
             \o MapClean(texts, i + 1)

\* batch_clean_vaani_transcripts writing the cleaned column to every column
batch_clean_vaani_all_columns(b, text_column) ==
  Dict([c \in DOMAIN b |-> MapClean(b[text_column], 1)])

batch_clean_vaani_transcripts(b, text_column) ==
  Dict([b EXCEPT ![text_column] = MapClean(b[text_column], 1)])

---------------------------------------------------------------------------
(* Inputs *)

MaxLen == 2
MaxBatch == 2
MaxTagLen == 3
MaxPunctLen == 2
MaxBracketLen == 5
MaxKindsLen == 3
MaxGeneralLen == 3
MaxDigitLen == 4
MaxSpaceLen == 5
MaxVaaniLen == 5

Strings(alphabet, maxlen) == UNION {[1..k -> alphabet] : k \in 0..maxlen}

Texts(alphabet, maxlen) == {Str(s) : s \in Strings(alphabet, maxlen)}

Configs ==
  [lower_case : BOOLEAN, remove_numbers : BOOLEAN, remove_brackets : BOOLEAN,
   remove_punctuation : BOOLEAN]

\* the defaults of text_normalize and normalize_vaani_transcript
DefaultConfig ==
  [lower_case |-> TRUE, remove_numbers |-> FALSE, remove_brackets |-> FALSE,
   remove_punctuation |-> FALSE]

En == Str(<<"e", "n">>)
ZhCN == Str(<<"z", "h", "_", "C", "N">>)

NoBatch == [text |-> <<>>]

\* values that are absent, empty or not text
NonTexts ==
  {None, Str(<<>>), PyInt(0), PyInt(5), PyBool(FALSE), PyBool(TRUE),
   PyList(0), PyList(2)}

Hello ==
  << "H", "e", "l", "l", "o", ",", " ", "W", "O", "R", "L", "D", "!", " ",
     " ", "1", "2", "3" >>

---------------------------------------------------------------------------
(* One call of one function: pc = "call" holds the arguments, pc = "return"
   the arguments and the value returned. *)

Idle ==
  /\ pc = "call"
  /\ fn = "none"
  /\ ret = None

Return(f, value) ==
  /\ pc' = "return"
  /\ fn' = f
  /\ ret' = value
  /\ UNCHANGED <<text, language_code, cfg, batch>>

CallTextNormalize ==
  /\ pc = "call"
  /\ Return("text_normalize",
            text_normalize(text, language_code, cfg.lower_case,
                           cfg.remove_numbers, cfg.remove_brackets))

CallCleanVaani ==
  /\ pc = "call"
  /\ Return("clean_vaani_transcript", clean_vaani_transcript(text))

CallNormalizeVaani ==
  /\ pc = "call"
  /\ Return("normalize_vaani_transcript",
            normalize_vaani_transcript(text, cfg.remove_punctuation))

CallRemovePunctuation ==
  /\ pc = "call"
  /\ Return("remove_punctuation",
            Str(remove_punctuation(text.chars, language_code.chars)))

CallRemoveExtraWhitespace ==
  /\ pc = "call"
  /\ Return("remove_extra_whitespace",
            Str(remove_extra_whitespace(text.chars)))

CallRemoveDigitOnlyWords ==
  /\ pc = "call"
  /\ Return("remove_digit_only_words",
            PyBool(remove_digit_only_words(text.chars)))

CallRemoveBracketsContent ==
  /\ pc = "call"
  /\ Return("remove_brackets_content",
            Str(remove_brackets_content(text.chars)))

\* batch keeps the batch as it was passed; ret is the batch after the call
CallBatchNormalizeText ==
  /\ pc = "call"
  /\ Return("batch_normalize_text",
            batch_normalize_text(batch, "text", "language", cfg))

CallBatchCleanVaani ==
  /\ pc = "call"
  /\ Return("batch_clean_vaani_transcripts",
            batch_clean_vaani_transcripts(batch, "transcript"))

---------------------------------------------------------------------------
(* Single records of any value, through the three record functions *)

Init ==
  /\ Idle
  /\ text \in NonTexts \cup Texts({"a", " ", ",", "{"}, MaxLen)
  /\ language_code \in {En, ZhCN, None}
  /\ cfg \in Configs
  /\ batch = NoBatch

Next == CallTextNormalize \/ CallCleanVaani \/ CallNormalizeVaani

Spec == Init /\ [][Next]_vars

AbsentEmptyOrNotText(v) == v.kind # "str" \/ v.chars = <<>>

\* C4: an input that is absent, empty or not text is a drop, never a fault:
\* whatever the language tag and the configuration, text_normalize returns
\* None, clean_vaani_transcript and normalize_vaani_transcript return the
\* empty string, and none of them raises.
InvalidInputIsDropped ==
  (pc = "return" /\ AbsentEmptyOrNotText(text)) =>
    /\ ret.kind # "raise"
    /\ fn = "text_normalize" => ret = None
    /\ fn \in {"clean_vaani_transcript", "normalize_vaani_transcript"}
         => ret = Str(<<>>)

\* text_normalize(5, None) has returned None
InvalidInputDropped ==
  /\ pc = "return"
  /\ fn = "text_normalize"
  /\ text = PyInt(5)
  /\ language_code = None
  /\ ret = None

---------------------------------------------------------------------------
(* Batches through the two adapters *)

Zh == Str(<<"z", "h">>)

\* records that are kept, records that are dropped, and records whose
\* result depends on the language, the configuration or the adapter
BatchValues ==
  { None, Str(<<"A", ",">>), Str(<<"1">>), Str(<<"U+3002">>),
    Str(<<"{", "a", "}", "b">>), Str(<<"-", "-">>) }

\* a batch with the columns text, transcript and id and, when with_language,
\* the column language
MakeBatch(texts, with_language, languages) ==
  LET base == [c \in {"text", "transcript", "id"} |->
                 IF c = "id" THEN [i \in 1..Len(texts) |-> PyInt(i)]
                 ELSE texts]
  IN  IF with_language THEN base @@ ("language" :> languages) ELSE base

InitBatch ==
  /\ Idle
  /\ text = None
  /\ language_code = None
  /\ cfg \in [lower_case : BOOLEAN, remove_numbers : BOOLEAN,
              remove_brackets : BOOLEAN, remove_punctuation : {FALSE}]
  /\ \E k \in 0..MaxBatch :
       \E texts \in [1..k -> BatchValues], languages \in [1..k -> {En, Zh}],
          with_language \in BOOLEAN :
         batch = MakeBatch(texts, with_language, languages)

NextBatch == CallBatchNormalizeText \/ CallBatchCleanVaani

SpecBatch == InitBatch /\ [][NextBatch]_vars

BatchReturned ==
  /\ pc = "return"
  /\ fn \in {"batch_normalize_text", "batch_clean_vaani_transcripts"}

TextColumn == IF fn = "batch_normalize_text" THEN "text" ELSE "transcript"

\* C1: both adapters return a text column exactly as long as the one they
\* were given, however many of its records are dropped.
BatchSizeInvariant ==
  BatchReturned =>
    /\ ret.kind # "raise"
    /\ Len(ret.cols[TextColumn]) = Len(batch[TextColumn])

\* a batch of MaxBatch records returned with every record dropped
AllRecordsDropped ==
  /\ BatchReturned
  /\ Len(batch[TextColumn]) = MaxBatch
  /\ Len(ret.cols[TextColumn]) = MaxBatch
  /\ \A i \in 1..MaxBatch :
       /\ batch[TextColumn][i] # Str(<<>>)
       /\ ret.cols[TextColumn][i] = Str(<<>>)

\* the language of record i: the language column's, or 'en' without one
LanguageOf(i) ==
  IF "language" \in DOMAIN batch THEN batch["language"][i] ELSE En

\* the per-record result of record i, the empty string for a dropped record
RecordResult(i) ==
  LET r == IF fn = "batch_normalize_text"
           THEN text_normalize(batch["text"][i], LanguageOf(i),
                               cfg.lower_case, cfg.remove_numbers,
                               cfg.remove_brackets)
           ELSE normalize_vaani_transcript(batch["transcript"][i], FALSE)
  IN  IF r = None THEN Str(<<>>) ELSE r

\* C2: the adapters rewrite the text column position by position and
\* nothing else: position i holds the per-record result of record i (the
\* empty string for a dropped record), which depends on record i alone, and
\* every other column is as it was.
BatchRewritesTextColumnOnly ==
  BatchReturned =>
    /\ DOMAIN ret.cols = DOMAIN batch
    /\ \A c \in DOMAIN batch \ {TextColumn} : ret.cols[c] = batch[c]
    /\ DOMAIN ret.cols[TextColumn] = DOMAIN batch[TextColumn]
    /\ \A i \in DOMAIN batch[TextColumn] : ret.cols[TextColumn][i] = RecordResult(i)

\* a batch with a language column returned with one record kept and one
\* dropped, in place
KeptAndDroppedInPlace ==
  /\ BatchReturned
  /\ fn = "batch_normalize_text"
  /\ "language" \in DOMAIN batch
  /\ Len(batch["text"]) = 2
  /\ batch["text"][1] = Str(<<"U+3002">>)
  /\ batch["text"][2] = Str(<<"U+3002">>)
  /\ batch["language"] = <<Zh, En>>
  /\ ret.cols["text"] = <<Str(<<>>), Str(<<"U+3002">>)>>
  /\ ret.cols["id"] = <<PyInt(1), PyInt(2)>>

---------------------------------------------------------------------------
(* remove_punctuation over texts and language tags *)

TagExamples ==
  { <<"e", "n">>, <<"x", "x">>, <<"j", "a">>, <<"k", "o">>,
    <<"J", "A", "_", "j", "p">>, <<"k", "o", "-", "K", "R">>,
    <<"z", "h", "-", "C", "N">>, <<"z", "h", "_", "C", "N">>,
    <<"d", "e", "f", "a", "u", "l", "t">> }

\* a letter, ASCII punctuation, and punctuation of all three, of the zh, of
\* the ja and of the ko profile alone
PunctAlphabet == {"a", ",", "U+3002", "U+FF0C", "U+30FB", "U+318D"}

InitPunct ==
  /\ Idle
  /\ text \in Texts(PunctAlphabet, MaxPunctLen) \cup {Str(<<"a", ",", "b", "!">>)}
  /\ language_code \in
       {Str(t) : t \in Strings({"z", "h", "Z", "-", "_"}, MaxTagLen) \cup TagExamples}
  /\ cfg = DefaultConfig
  /\ batch = NoBatch

NextPunct == CallRemovePunctuation

SpecPunct == InitPunct /\ [][NextPunct]_vars

RECURSIVE BeforeSeparator(_)
\* the part of a tag before its first '-' or '_'
BeforeSeparator(tag) ==
  IF tag = <<>> \/ Head(tag) \in {"-", "_"} THEN <<>>
  ELSE <<Head(tag)>> \o BeforeSeparator(Tail(tag))

PrimarySubtag(tag) == Lower(BeforeSeparator(tag))

ProfileOfSubtag(key) ==
  IF key = <<"z", "h">> THEN AsciiPunctuation \cup ZhPunctuation
  ELSE IF key = <<"j", "a">> THEN AsciiPunctuation \cup JaPunctuation
  ELSE IF key = <<"k", "o">> THEN AsciiPunctuation \cup KoPunctuation
  ELSE AsciiPunctuation

\* C3: remove_punctuation deletes the characters of the profile of the
\* tag's primary subtag: the part before the first '-' or '_', compared
\* case-insensitively with zh, ja and ko; every other tag uses the default
\* profile, without error.
ProfileFromPrimarySubtag ==
  (pc = "return" /\ fn = "remove_punctuation") =>
    /\ ret.kind = "str"
    /\ \A i \in 1..Len(ret.chars) :
         ret.chars[i] \notin ProfileOfSubtag(PrimarySubtag(language_code.chars))
    /\ ret = Str(DeleteChars(text.chars,
                             ProfileOfSubtag(PrimarySubtag(language_code.chars))))

---------------------------------------------------------------------------
(* remove_brackets_content over texts of brackets, letters and whitespace *)

BracketAlphabet == {"[", "]", "<", ">", "{", "}", "(", ")", "a", "\n"}

BracketExamples ==
  { <<"a", " ", "[", "b", "]", " ", "c", " ", "[", "d", "]", " ", "e">>,
    <<"[", "a", "[", "b", "]", "c", "]">>,
    <<"(", "a", " ", "<", "b", ")", " ", "c", ">">> }

InitBrackets ==
  /\ Idle
  /\ text \in Texts(BracketAlphabet, MaxKindsLen)
                \cup {Str(s) : s \in BracketExamples}
  /\ language_code = En
  /\ cfg = DefaultConfig
  /\ batch = NoBatch

NextBrackets == CallRemoveBracketsContent

SpecBrackets == InitBrackets /\ [][NextBrackets]_vars

\* s without every span from an open to the nearest following close,
\* leftmost first
WithoutNearestPairs(s, open, close) == SubSpan(s, open, close, 1)

\* C7: remove_brackets_content removes the text enclosed in each bracket
\* kind by leftmost shortest match, each opening bracket pairing with the
\* nearest following closing bracket of its kind, one kind at a time in the
\* order square, angle, curly, round.
BracketsRemovedByNearestPair ==
  (pc = "return" /\ fn = "remove_brackets_content") =>
    ret = Str(WithoutNearestPairs(
                WithoutNearestPairs(
                  WithoutNearestPairs(
                    WithoutNearestPairs(text.chars, "[", "]"),
                    "<", ">"),
                  "{", "}"),
                "(", ")"))

---------------------------------------------------------------------------
(* remove_extra_whitespace over texts of letters and whitespace *)

InitWhitespace ==
  /\ Idle
  /\ text \in Texts({"a", "b", " ", "\t", "\n", "U+00A0"}, MaxSpaceLen)
  /\ language_code = En
  /\ cfg = DefaultConfig
  /\ batch = NoBatch

NextWhitespace == CallRemoveExtraWhitespace

SpecWhitespace == InitWhitespace /\ [][NextWhitespace]_vars

RECURSIVE Words(_, _)
\* the maximal runs of non-whitespace characters of s, after the run word
Words(s, word) ==
  IF s = <<>> THEN (IF word = <<>> THEN <<>> ELSE <<word>>)
  ELSE IF Head(s) \in Whitespace
       THEN (IF word = <<>> THEN <<>> ELSE <<word>>) \o Words(Tail(s), <<>>)
       ELSE Words(Tail(s), Append(word, Head(s)))

RECURSIVE JoinWithSpace(_)
JoinWithSpace(words) ==
  IF words = <<>> THEN <<>>
  ELSE IF Len(words) = 1 THEN words[1]
  ELSE words[1] \o <<" ">> \o JoinWithSpace(Tail(words))

\* no whitespace but single ASCII spaces between other characters
SingleSpaced(s) ==
  /\ \A i \in 1..Len(s) : s[i] \in Whitespace => s[i] = " "
  /\ \A i \in 1..Len(s) - 1 : ~(s[i] = " " /\ s[i + 1] = " ")
  /\ s # <<>> => (s[1] # " " /\ s[Len(s)] # " ")

\* C9: remove_extra_whitespace is idempotent, and its result is the text
\* with every maximal whitespace run replaced by one ASCII space and no
\* whitespace at either end.
WhitespaceNormalizeIdempotent ==
  (pc = "return" /\ fn = "remove_extra_whitespace") =>
    /\ remove_extra_whitespace(ret.chars) = ret.chars
    /\ SingleSpaced(ret.chars)
    /\ ret.chars = JoinWithSpace(Words(text.chars, <<>>))

\* "a\t\nb " has been normalized to "a b"
WhitespaceRunsCollapsed ==
  /\ pc = "return"
  /\ fn = "remove_extra_whitespace"
  /\ text = Str(<<"a", "\t", "\n", "b", " ">>)
  /\ ret = Str(<<"a", " ", "b">>)

---------------------------------------------------------------------------
(* The annotation stripper over texts of markup, dashes and whitespace *)

VaaniAlphabet == {"{", "}", "<", ">", "-", " ", "a"}

TextMore == <<"t", "e", "x", "t", " ", "-", "-", " ", "m", "o", "r", "e">>

VaaniExamples ==
  { TextMore,
    <<"a", " ", "{", "b", "\n", "c", "}", " ", "<", "p", ">", " ", "-", "-",
      "<", "/", "p", ">">>,
    <<"{", "\n", "}", "\t", "a">>,
    <<"-", "{", "<", "}", "-", ">", "-">> }

InitVaani ==
  /\ Idle
  /\ text \in Texts(VaaniAlphabet, MaxVaaniLen) \cup {Str(s) : s \in VaaniExamples}
  /\ language_code = En
  /\ cfg = DefaultConfig
  /\ batch = NoBatch

NextVaani == CallCleanVaani \/ CallNormalizeVaani

SpecVaani == InitVaani /\ [][NextVaani]_vars

\* some open is followed, later in s, by a close
HasPair(s, open, close) ==
  \E i \in 1..Len(s) : \E j \in i + 1..Len(s) : s[i] = open /\ s[j] = close

HasDashRun(s) == \E i \in 1..Len(s) - 1 : s[i] = "-" /\ s[i + 1] = "-"

\* s without its runs of two or more dashes
WithoutDashRuns(s) == SubDashRuns(s, 1)

\* C6: clean_vaani_transcript returns the text without its '{' to next '}'
\* spans, then without its '<' to next '>' spans, then without its runs of
\* two or more '-', whitespace-normalized; so the result holds no '{' with
\* a later '}', no '<' with a later '>', no run of two or more '-', and no
\* leading, trailing or repeated whitespace.
CleanVaaniRemovesMarkup ==
  (pc = "return" /\ fn = "clean_vaani_transcript") =>
    /\ ret = Str(JoinWithSpace(Words(
               WithoutDashRuns(
                 WithoutNearestPairs(
                   WithoutNearestPairs(text.chars, "{", "}"), "<", ">")),
               <<>>)))
    /\ ~HasPair(ret.chars, "{", "}")
    /\ ~HasPair(ret.chars, "<", ">")
    /\ ~HasDashRun(ret.chars)
    /\ SingleSpaced(ret.chars)

\* clean_vaani_transcript("text -- more") has returned "text more"
TextMoreCleaned ==
  /\ pc = "return"
  /\ fn = "clean_vaani_transcript"
  /\ text = Str(TextMore)
  /\ ret = Str(<<"t", "e", "x", "t", " ", "m", "o", "r", "e">>)

\* C10: clean_vaani_transcript applied to its own output returns it
\* unchanged, and normalize_vaani_transcript with the punctuation flag off
\* returns what clean_vaani_transcript returns.
CleanVaaniIdempotent ==
  /\ (pc = "return" /\ fn = "clean_vaani_transcript")
       => clean_vaani_transcript(ret) = ret
  /\ (pc = "return" /\ fn = "normalize_vaani_transcript"
        /\ ~cfg.remove_punctuation)
       => /\ ret = clean_vaani_transcript(text)
          /\ normalize_vaani_transcript(ret, FALSE) = ret

\* the output ">-" of "-{<}->-", which still holds markup characters
MarkupLeftInOutput ==
  /\ pc = "return"
  /\ fn = "clean_vaani_transcript"
  /\ text = Str(<<"-", "{", "<", "}", "-", ">", "-">>)
  /\ ret = Str(<<">", "-">>)

---------------------------------------------------------------------------
(* The digit-only filter, alone and inside text_normalize *)

DigitExamples ==
  {<<"1", "2", "3">>, <<"1", "2", " ", "3">>, <<"1", "2", "a">>}

InitDigits ==
  /\ Idle
  /\ text \in Texts({"1", "2", "U+00B2", "a", " ", ","}, MaxDigitLen)
                \cup {Str(s) : s \in DigitExamples}
  /\ language_code = En
  /\ cfg \in [lower_case : {TRUE}, remove_numbers : BOOLEAN,
              remove_brackets : {FALSE}, remove_punctuation : {FALSE}]
  /\ batch = NoBatch

NextDigits == CallRemoveDigitOnlyWords \/ CallTextNormalize

SpecDigits == InitDigits /\ [][NextDigits]_vars

\* the text as text_normalize hands it to the filter
WhitespaceNormalized ==
  LET t1 == normalize_unicode(text.chars)
      t2 == IF cfg.remove_brackets THEN remove_brackets_content(t1) ELSE t1
      t3 == remove_punctuation(t2, language_code.chars)
      t4 == IF cfg.lower_case THEN Lower(t3) ELSE t3
  IN  remove_extra_whitespace(t4)

\* non-empty once its spaces are removed, and only characters of class
NonEmptyAndOnly(s, class) ==
  LET stripped == DeleteChars(s, {" "})
  IN  stripped # <<>> /\ \A i \in 1..Len(stripped) : stripped[i] \in class

Drop == PyBool(FALSE)

\* C8 as claimed: the filter decides drop exactly when the text without
\* its spaces is non-empty and only decimal digits, and text_normalize with
\* remove_numbers returns None exactly for the (non-empty) records whose
\* whitespace-normalized text the filter drops.
DigitFilterDropsDecimalOnly ==
  /\ (pc = "return" /\ fn = "remove_digit_only_words") =>
       (ret = Drop <=> NonEmptyAndOnly(text.chars, DecimalDigits))
  /\ (pc = "return" /\ fn = "text_normalize" /\ cfg.remove_numbers
        /\ ~AbsentEmptyOrNotText(text)) =>
       (ret = None <=> ~remove_digit_only_words(WhitespaceNormalized))

\* the decimal digits and SUPERSCRIPT TWO, THREE and ONE
DigitCharacters == DecimalDigits \cup {"U+00B2", "U+00B3", "U+00B9"}

\* C8, amended: the filter decides drop exactly when the text without its
\* spaces is non-empty and only digits in the sense of str.isdigit (the
\* decimal digits and the other Unicode digits, such as superscript two);
\* text_normalize returns None exactly for the records whose
\* whitespace-normalized text is empty or, with remove_numbers, dropped by
\* the filter.
DigitFilterDropsDigitTexts ==
  /\ (pc = "return" /\ fn = "remove_digit_only_words") =>
       (ret = Drop <=> NonEmptyAndOnly(text.chars, DigitCharacters))
  /\ (pc = "return" /\ fn = "text_normalize") =>
       (ret = None <=>
          \/ WhitespaceNormalized = <<>>
          \/ cfg.remove_numbers
               /\ NonEmptyAndOnly(WhitespaceNormalized, DigitCharacters))

\* text_normalize with remove_numbers has dropped "1, 2"
DigitOnlyRecordDropped ==
  /\ pc = "return"
  /\ fn = "text_normalize"
  /\ cfg.remove_numbers
  /\ text = Str(<<"1", ",", " ", "2">>)
  /\ ret = None

---------------------------------------------------------------------------
(* text_normalize over texts and configurations *)

NestAlphabet == {"[", "]", "<", ">", "a", "\n"}

GeneralAlphabet ==
  {"E", "1", " ", ",", "U+3002", "e", "U+0301", "U+037E"}

RuleConfigs ==
  [lower_case : BOOLEAN, remove_numbers : BOOLEAN, remove_brackets : BOOLEAN,
   remove_punctuation : {FALSE}]

InitNormalize ==
  /\ Idle
  /\ batch = NoBatch
  /\ \/ /\ text \in Texts(NestAlphabet, MaxBracketLen)
        /\ language_code = En
        /\ cfg \in {c \in RuleConfigs : c.lower_case /\ ~c.remove_numbers}
     \/ /\ text \in Texts(GeneralAlphabet, MaxGeneralLen) \cup {Str(Hello)}
        /\ language_code \in {En, ZhCN}
        /\ cfg \in RuleConfigs

NextNormalize == CallTextNormalize

SpecNormalize == InitNormalize /\ [][NextNormalize]_vars

\* the rules of text_normalize, one after the other
RulesInOrder ==
  IF cfg.remove_numbers /\ ~remove_digit_only_words(WhitespaceNormalized)
  THEN None
  ELSE IF WhitespaceNormalized = <<>> THEN None
  ELSE Str(WhitespaceNormalized)

Brackets == {<<"[", "]">>, <<"<", ">">>, <<"{", "}">>, <<"(", ")">>}

IsBracket(c) == \E p \in Brackets : c = p[1] \/ c = p[2]

RECURSIVE Balanced(_, _, _, _, _)
\* the brackets of kind p at positions j..k of s match each other, when d
\* of them are open before j
Balanced(s, p, j, k, d) ==
  IF j > k THEN d = 0
  ELSE IF s[j] = p[1] THEN Balanced(s, p, j + 1, k, d + 1)
  ELSE IF s[j] = p[2] THEN d > 0 /\ Balanced(s, p, j + 1, k, d - 1)
  ELSE Balanced(s, p, j + 1, k, d)

\* position i of s lies inside a bracket pair: between an opening bracket
\* and the closing bracket of its kind that matches it
Enclosed(s, i) ==
  \E p \in Brackets : \E j \in 1..i - 1 : \E k \in i + 1..Len(s) :
    s[j] = p[1] /\ s[k] = p[2] /\ Balanced(s, p, j + 1, k - 1, 0)

\* a kept result is a non-empty, single-spaced text without punctuation of
\* the language's profile (nor a character NFC turns into punctuation) and,
\* with lower_case, without upper-case letters
KeptResultShape ==
  ret # None =>
    /\ ret.kind = "str"
    /\ ret.chars # <<>>
    /\ ~IsSpaceStr(ret.chars)
    /\ SingleSpaced(ret.chars)
    /\ \A i \in 1..Len(ret.chars) :
         /\ ret.chars[i] \notin PUNCTUATION_PATTERNS(lang_key(language_code.chars))
         /\ ret.chars[i] # "U+037E"
         /\ cfg.lower_case => ~IsChar(ret.chars[i], UpperCase)

FlatPair(s, j, k) ==
  /\ j < k
  /\ <<s[j], s[k]>> \in Brackets
  /\ \A m \in j + 1..k - 1 : ~IsBracket(s[m])

\* the brackets of s are pairs that are neither nested nor overlapping
Flat(s) ==
  \A p \in 1..Len(s) :
    IsBracket(s[p]) =>
      \E q \in 1..Len(s) : FlatPair(s, p, q) \/ FlatPair(s, q, p)

\* position i of s lies in a pair of a flat text that holds no newline
EnclosedOnOneLine(s, i) ==
  \E j \in 1..i - 1 : \E k \in i + 1..Len(s) :
    FlatPair(s, j, k) /\ \A m \in j..k : s[m] # "\n"

===========================================================================
